---- MODULE Spec2Model ----
(***************************************************************************)
(* Storage layer of the watch-history archive: the watch_history, notes,   *)
(* tags and video_tags tables behind WatchHistoryRepository,               *)
(* NotesRepository, TagsRepository, VideoTagsRepository and ExportService. *)
(*                                                                         *)
(* Strings are TLA+ strings; SQL NULL and JSON null are the sentinel NULL,  *)
(* which no data string of the model equals, and an undefined JavaScript   *)
(* property is a field missing from its record.  A table with an           *)
(* AUTOINCREMENT id is a set of rows plus its sqlite_sequence counter;     *)
(* video_tags, which has no id column, is a bag of rows, so that a second  *)
(* row for one pair is representable.                                      *)
(***************************************************************************)
EXTENDS Bags, FiniteSets, Integers, Sequences, TLC

VARIABLES watch_history, notes, tags, video_tags, seq, schema, calls, clock, last

vars == <<watch_history, notes, tags, video_tags, seq, schema, calls, clock, last>>

(* ----------------------------- bounds ---------------------------------- *)

MaxEventId == 2

MaxNoteId == 2

MaxTagId == 2

MaxBatch == 3

MaxIds == 2

MaxLines == 1

(* stored events in the runs of the query operations *)
MaxQueryEvents == 3

(* --------------------------- value helpers ----------------------------- *)

NULL == "<null>"

(* o.f, with d where the property is undefined *)
Opt(o, f, d) == IF f \in DOMAIN o THEN o[f] ELSE d

Range(s) == {s[i] : i \in 1..Len(s)}

SeqsUpTo(S, n) == UNION {[1..k -> S] : k \in 0..n}

CharAt(s, i) == SubSeq(s, i, i)

IsSpace(c) == c = " "

RECURSIVE TrimStart(_)
TrimStart(s) ==
  IF Len(s) > 0 /\ IsSpace(CharAt(s, 1)) THEN TrimStart(SubSeq(s, 2, Len(s))) ELSE s

RECURSIVE TrimEnd(_)
TrimEnd(s) ==
  IF Len(s) > 0 /\ IsSpace(CharAt(s, Len(s))) THEN TrimEnd(SubSeq(s, 1, Len(s) - 1)) ELSE s

Trim(s) == TrimEnd(TrimStart(s))

(* ------------------------------ store ---------------------------------- *)

DB ==
  [watch_history |-> watch_history, notes |-> notes, tags |-> tags,
   video_tags |-> video_tags, seq |-> seq, now |-> clock]

EmptyDB ==
  [watch_history |-> {}, notes |-> {}, tags |-> {}, video_tags |-> EmptyBag,
   seq |-> [watch_history |-> 0, notes |-> 0, tags |-> 0], now |-> 0]

Sources == {"takeout", "playwright"}

(* CREATE TABLE watch_history: NOT NULL columns and the CHECK on source *)
watch_history_constraints(e) ==
  /\ e.videoId # NULL
  /\ e.title # NULL
  /\ e.watchedAt # NULL
  /\ e.videoUrl # NULL
  /\ e.source \in Sources

SameKey(r, e) == r.videoId = e.videoId /\ r.watchedAt = e.watchedAt

(* the row bound by the INSERT: an undefined value is bound as NULL, and
   is_ad falls back to its DEFAULT *)
NewRow(id, e) ==
  [id |-> id, videoId |-> Opt(e, "videoId", NULL), title |-> Opt(e, "title", NULL),
   channelName |-> Opt(e, "channelName", NULL),
   channelUrl |-> Opt(e, "channelUrl", NULL),
   watchedAt |-> Opt(e, "watchedAt", NULL),
   thumbnailUrl |-> Opt(e, "thumbnailUrl", NULL),
   videoUrl |-> Opt(e, "url", NULL), isAd |-> Opt(e, "isAd", FALSE),
   source |-> Opt(e, "source", NULL)]

(* insert with a table that lacks UNIQUE(video_id, watched_at) *)
insert_withoutUnique(db, entry) ==
  LET row == NewRow(db.seq.watch_history + 1, entry)
  IN IF ~watch_history_constraints(row)
       THEN [db |-> db, ret |-> FALSE]
       ELSE [db |-> [db EXCEPT !.watch_history = @ \cup {row},
                               !.seq.watch_history = row.id],
             ret |-> TRUE]

(* WatchHistoryRepository.insert: INSERT ... ON CONFLICT DO NOTHING; any
   exception of the statement is caught and reported as false *)
insert(db, entry) ==
  LET row == NewRow(db.seq.watch_history + 1, entry)
  IN IF ~watch_history_constraints(row)
       THEN [db |-> db, ret |-> FALSE]
     ELSE IF \E r \in db.watch_history : SameKey(r, row)
       THEN [db |-> db, ret |-> FALSE]
     ELSE [db |-> [db EXCEPT !.watch_history = @ \cup {row},
                             !.seq.watch_history = row.id],
           ret |-> TRUE]

(* WatchHistoryRepository.bulkInsert: the loop over entries[i..] *)
RECURSIVE bulkInsertFrom(_, _, _, _)
bulkInsertFrom(db, entries, i, res) ==
  IF i > Len(entries) THEN [db |-> db, ret |-> res]
  ELSE LET r == insert(db, entries[i])
       IN bulkInsertFrom(r.db, entries, i + 1,
            IF r.ret THEN [res EXCEPT !.inserted = @ + 1]
                     ELSE [res EXCEPT !.duplicates = @ + 1])

(* bulkInsert that leaves the skipped records out of its counts *)
bulkInsert_skipsUncounted(db, entries) ==
  LET r == bulkInsertFrom(db, entries, 1,
                          [inserted |-> 0, duplicates |-> 0, errors |-> <<>>])
  IN [r EXCEPT !.ret.duplicates = 0]

bulkInsert(db, entries) ==
  bulkInsertFrom(db, entries, 1, [inserted |-> 0, duplicates |-> 0, errors |-> <<>>])

(* a delete that reports true whether or not a row had the id *)
delete_reportsTrue(db, id) ==
  [db |-> [db EXCEPT !.watch_history = {r \in @ : r.id # id},
                     !.notes = {n \in @ : n.watchHistoryId # id},
                     !.video_tags = [p \in {q \in DOMAIN @ : q.watchHistoryId # id} |-> @[p]]],
   ret |-> TRUE]

(* a connection whose foreign_keys pragma is off: nothing cascades *)
CascadeEvent_foreignKeysOff(db, id) == db

(* rows removed by ON DELETE CASCADE when watch_history row id goes *)
CascadeEvent(db, id) ==
  [db EXCEPT !.notes = {n \in @ : n.watchHistoryId # id},
             !.video_tags = [p \in {q \in DOMAIN @ : q.watchHistoryId # id} |-> @[p]]]

(* WatchHistoryRepository.delete *)
delete(db, id) ==
  IF \E r \in db.watch_history : r.id = id
    THEN [db |-> [CascadeEvent(db, id) EXCEPT
                    !.watch_history = {r \in @ : r.id # id}],
          ret |-> TRUE]
    ELSE [db |-> db, ret |-> FALSE]

(* ------------------------------ tags ----------------------------------- *)

(* the row a .get() returns: the first of the selected rows, in id order *)
FirstRow(rows) == CHOOSE r \in rows : \A q \in rows : r.id <= q.id

(* a lookup by the name as given, not trimmed *)
getByName_untrimmed(db, name) == {t \in db.tags : t.name = name}

(* TagsRepository.getByName: the rows selected, none when there is no tag *)
getByName(db, name) == {t \in db.tags : t.name = Trim(name)}

(* create on a tags table whose name column is not UNIQUE *)
create_withoutUnique(db, name) ==
  LET row == [id |-> db.seq.tags + 1, name |-> Trim(name), color |-> NULL]
  IN [db |-> [db EXCEPT !.tags = @ \cup {row}, !.seq.tags = row.id],
      threw |-> FALSE, ret |-> {row}]

(* TagsRepository.create: INSERT INTO tags; name is UNIQUE *)
create(db, name) ==
  LET n == Trim(name)
      id == db.seq.tags + 1
  IN IF \E t \in db.tags : t.name = n
       THEN [db |-> db, threw |-> TRUE, ret |-> {}]
       ELSE [db |-> [db EXCEPT !.tags = @ \cup {[id |-> id, name |-> n, color |-> NULL]},
                               !.seq.tags = id],
             threw |-> FALSE,
             ret |-> {[id |-> id, name |-> n, color |-> NULL]}]

(* TagsRepository.getOrCreate; ret is the singleton of the tag returned *)
getOrCreate(db, name) ==
  LET existing == getByName(db, name)
  IN IF existing # {}
       THEN [db |-> db, threw |-> FALSE, ret |-> {FirstRow(existing)}]
       ELSE create(db, name)

(* TagsRepository.rename: UPDATE tags SET name; ret holds the row returned,
   nothing when no row has the id; the UNIQUE name makes the statement throw *)
rename(db, id, newName) ==
  LET n == Trim(newName)
  IN IF ~\E t \in db.tags : t.id = id
       THEN [db |-> db, threw |-> FALSE, ret |-> {}]
     ELSE IF \E t \in db.tags : t.id # id /\ t.name = n
       THEN [db |-> db, threw |-> TRUE, ret |-> {}]
     ELSE [db |-> [db EXCEPT !.tags =
                     {IF t.id = id THEN [t EXCEPT !.name = n] ELSE t : t \in @}],
           threw |-> FALSE,
           ret |-> {[t EXCEPT !.name = n] : t \in {u \in db.tags : u.id = id}}]

(* TagsRepository.updateColor: UPDATE tags SET color ... RETURNING *)
updateColor(db, id, color) ==
  [db |-> [db EXCEPT !.tags =
             {IF t.id = id THEN [t EXCEPT !.color = color] ELSE t : t \in @}],
   ret |-> {[t EXCEPT !.color = color] : t \in {u \in db.tags : u.id = id}}]

(* a tag delete on a connection that does not enforce foreign keys *)
tags_delete_withoutCascade(db, id) ==
  [db |-> [db EXCEPT !.tags = {t \in @ : t.id # id}],
   ret |-> \E t \in db.tags : t.id = id]

(* TagsRepository.delete, with ON DELETE CASCADE of video_tags.tag_id *)
tags_delete(db, id) ==
  IF \E t \in db.tags : t.id = id
    THEN [db |-> [db EXCEPT
                    !.tags = {t \in @ : t.id # id},
                    !.video_tags = [p \in {q \in DOMAIN @ : q.tagId # id} |-> @[p]]],
          ret |-> TRUE]
    ELSE [db |-> db, ret |-> FALSE]

(* ---------------------------- video_tags ------------------------------- *)

VT(w, t) == [watchHistoryId |-> w, tagId |-> t]

(* the REFERENCES clauses of video_tags *)
video_tags_foreign_keys(db, w, t) ==
  /\ \E r \in db.watch_history : r.id = w
  /\ \E g \in db.tags : g.id = t

(* VideoTagsRepository.hasTag *)
hasTag(db, w, t) == BagIn(VT(w, t), db.video_tags)

(* assign into a table without PRIMARY KEY (watch_history_id, tag_id) *)
assign_withoutPrimaryKey(db, w, t) ==
  IF ~video_tags_foreign_keys(db, w, t)
    THEN [db |-> db, ret |-> FALSE]
    ELSE [db |-> [db EXCEPT !.video_tags = @ (+) SetToBag({VT(w, t)})],
          ret |-> TRUE]

(* VideoTagsRepository.assign: INSERT ... ON CONFLICT DO NOTHING, any
   exception (a foreign key that matches no row) reported as false *)
assign(db, w, t) ==
  IF ~video_tags_foreign_keys(db, w, t)
    THEN [db |-> db, ret |-> FALSE]
  ELSE IF BagIn(VT(w, t), db.video_tags)
    THEN [db |-> db, ret |-> TRUE]
  ELSE [db |-> [db EXCEPT !.video_tags = @ (+) SetToBag({VT(w, t)})],
        ret |-> TRUE]

(* VideoTagsRepository.remove *)
remove(db, w, t) ==
  IF BagIn(VT(w, t), db.video_tags)
    THEN [db |-> [db EXCEPT !.video_tags =
                    [p \in DOMAIN @ \ {VT(w, t)} |-> @[p]]],
          ret |-> TRUE]
    ELSE [db |-> db, ret |-> FALSE]

(* VideoTagsRepository.getTagsForVideo: the tag rows of an event *)
getTagsForVideo(db, w) ==
  {g \in db.tags : \E p \in BagToSet(db.video_tags) :
                      p.watchHistoryId = w /\ p.tagId = g.id}

IsInjective(s) == \A i, j \in 1..Len(s) : s[i] = s[j] => i = j

(* setVideoTags that adds the given tags to the ones the event has *)
setVideoTags_merge(db, w, tagIds) ==
  IF \A i \in 1..Len(tagIds) : video_tags_foreign_keys(db, w, tagIds[i])
    THEN [db |-> [db EXCEPT !.video_tags =
                    @ (+) SetToBag({VT(w, t) : t \in Range(tagIds)} \ DOMAIN @)],
          threw |-> FALSE]
    ELSE [db |-> db, threw |-> TRUE]

(* VideoTagsRepository.setVideoTags: DELETE, then one multi-row INSERT that
   fails as a whole on a foreign key or on a repeated (event, tag) pair; the
   DELETE is a statement of its own and is not undone *)
setVideoTags(db, w, tagIds) ==
  LET cleared == [db EXCEPT !.video_tags =
                    [p \in {q \in DOMAIN @ : q.watchHistoryId # w} |-> @[p]]]
  IN IF Len(tagIds) = 0
       THEN [db |-> cleared, threw |-> FALSE]
     ELSE IF /\ \A i \in 1..Len(tagIds) : video_tags_foreign_keys(db, w, tagIds[i])
             /\ IsInjective(tagIds)
       THEN [db |-> [cleared EXCEPT !.video_tags =
                       @ (+) SetToBag({VT(w, t) : t \in Range(tagIds)})],
             threw |-> FALSE]
     ELSE [db |-> cleared, threw |-> TRUE]

(* VideoTagsRepository.bulkAssign: the loop over watchHistoryIds[i..] *)
RECURSIVE bulkAssignFrom(_, _, _, _, _)
bulkAssignFrom(db, ids, t, i, assigned) ==
  IF i > Len(ids) THEN [db |-> db, ret |-> assigned]
  ELSE LET r == assign(db, ids[i], t)
       IN bulkAssignFrom(r.db, ids, t, i + 1,
                         IF r.ret THEN assigned + 1 ELSE assigned)

bulkAssign(db, ids, t) == bulkAssignFrom(db, ids, t, 1, 0)

(* ------------------------------ notes ---------------------------------- *)

(* NotesRepository.add: INSERT INTO notes; watch_history_id REFERENCES
   watch_history(id) and content is NOT NULL *)
add(db, w, content) ==
  LET id == db.seq.notes + 1
  IN IF content = NULL \/ ~\E r \in db.watch_history : r.id = w
       THEN [db |-> db, threw |-> TRUE]
       ELSE [db |-> [db EXCEPT
                       !.notes = @ \cup {[id |-> id, watchHistoryId |-> w,
                                          content |-> content,
                                          createdAt |-> db.now]},
                       !.seq.notes = id],
             threw |-> FALSE]

(* NotesRepository.update: UPDATE notes SET content ... RETURNING; content is
   NOT NULL *)
update(db, id, content) ==
  IF ~\E n \in db.notes : n.id = id
    THEN [db |-> db, threw |-> FALSE, ret |-> {}]
  ELSE IF content = NULL
    THEN [db |-> db, threw |-> TRUE, ret |-> {}]
  ELSE [db |-> [db EXCEPT !.notes =
                  {IF n.id = id THEN [n EXCEPT !.content = content] ELSE n : n \in @}],
        threw |-> FALSE,
        ret |-> {[n EXCEPT !.content = content] : n \in {m \in db.notes : m.id = id}}]

(* NotesRepository.delete *)
notes_delete(db, id) ==
  IF \E n \in db.notes : n.id = id
    THEN [db |-> [db EXCEPT !.notes = {n \in @ : n.id # id}], ret |-> TRUE]
    ELSE [db |-> db, ret |-> FALSE]

(* all orders of the rows of a set *)
Orderings(rows) ==
  {s \in [1..Cardinality(rows) -> rows] : \A i, j \in DOMAIN s : s[i] = s[j] => i = j}

(* NotesRepository.getByWatchHistoryId: ORDER BY created_at DESC; the notes
   with one created_at come in an order the statement does not fix *)
getByWatchHistoryId(db, w) ==
  {s \in Orderings({n \in db.notes : n.watchHistoryId = w}) :
     \A i, j \in DOMAIN s : i < j => s[i].createdAt >= s[j].createdAt}

(* --------------------------- SQL text operators ------------------------ *)

UpperCase == "ABCDEFGHIJKLMNOPQRSTUVWXYZ"

LowerCase == "abcdefghijklmnopqrstuvwxyz"

(* the lower-case letter of each upper-case ASCII letter *)
LowerOf ==
  [c \in {CharAt(UpperCase, i) : i \in 1..Len(UpperCase)} |->
     CharAt(LowerCase, CHOOSE i \in 1..Len(UpperCase) : CharAt(UpperCase, i) = c)]

(* LIKE folds the case of ASCII letters only *)
Fold(c) == IF c \in DOMAIN LowerOf THEN LowerOf[c] ELSE c

(* text LIKE pattern: % matches any run of characters, _ any one character *)
RECURSIVE Like(_, _)
Like(text, pattern) ==
  IF Len(pattern) = 0 THEN Len(text) = 0
  ELSE LET p == CharAt(pattern, 1)
           rest == SubSeq(pattern, 2, Len(pattern))
       IN IF p = "%"
            THEN \E k \in 0..Len(text) : Like(SubSeq(text, k + 1, Len(text)), rest)
          ELSE IF Len(text) = 0 THEN FALSE
          ELSE IF p = "_" THEN Like(SubSeq(text, 2, Len(text)), rest)
          ELSE /\ Fold(CharAt(text, 1)) = Fold(p)
               /\ Like(SubSeq(text, 2, Len(text)), rest)

(* column LIKE pattern in a WHERE clause: NULL LIKE ... is not true *)
ColumnLike(value, pattern) == value # NULL /\ Like(value, pattern)

(* the characters of the model in code point order (BINARY collation) *)
CodePoints == " %-0123456789:ABCDEFGHIJKLMNOPQRSTUVWXYZ_abcdefghijklmnopqrstuvwxyz"

CodeOf ==
  [c \in {CharAt(CodePoints, i) : i \in 1..Len(CodePoints)} |->
     CHOOSE i \in 1..Len(CodePoints) : CharAt(CodePoints, i) = c]

Code(c) == CodeOf[c]

(* a < b as TEXT values *)
RECURSIVE TextLess(_, _)
TextLess(a, b) ==
  IF Len(b) = 0 THEN FALSE
  ELSE IF Len(a) = 0 THEN TRUE
  ELSE IF CharAt(a, 1) = CharAt(b, 1)
    THEN TextLess(SubSeq(a, 2, Len(a)), SubSeq(b, 2, Len(b)))
  ELSE Code(CharAt(a, 1)) < Code(CharAt(b, 1))

(* a comparison that leaves the bound itself out *)
TextLeq_exclusive(a, b) == TextLess(a, b)

TextLeq(a, b) == a = b \/ TextLess(a, b)

(* ORDER BY: NULL sorts before every text value *)
SortsBefore(a, b) ==
  IF a = NULL THEN b # NULL
  ELSE IF b = NULL THEN FALSE
  ELSE TextLess(a, b)

(* ------------------------- query and count ----------------------------- *)

DefaultLimit == 50

(* WatchHistoryRepository.mapRowToEntry *)
mapRowToEntry(row) ==
  [id |-> row.id, videoId |-> row.videoId, title |-> row.title,
   channelName |-> row.channelName, channelUrl |-> row.channelUrl,
   watchedAt |-> row.watchedAt,
   thumbnailUrl |-> IF row.thumbnailUrl = NULL THEN "" ELSE row.thumbnailUrl,
   url |-> row.videoUrl, isAd |-> row.isAd, source |-> row.source]

(* a tag filter that reads AND as OR *)
getWatchHistoryIdsByTags_anyTag(db, tagIds, logic) ==
  {p.watchHistoryId : p \in {q \in DOMAIN db.video_tags : q.tagId \in Range(tagIds)}}

(* WatchHistoryRepository.getWatchHistoryIdsByTags: the ids returned *)
getWatchHistoryIdsByTags(db, tagIds, logic) ==
  LET assignments == [p \in {q \in DOMAIN db.video_tags : q.tagId \in Range(tagIds)}
                        |-> db.video_tags[p]]
      ids == {p.watchHistoryId : p \in DOMAIN assignments}
      countByVideo(w) ==
        BagCardinality([p \in {q \in DOMAIN assignments : q.watchHistoryId = w}
                          |-> assignments[p]])
  IN IF Len(tagIds) = 0 THEN {}
     ELSE IF logic = "OR" THEN ids
     ELSE {w \in ids : countByVideo(w) = Len(tagIds)}

(* the ORDER BY column of query *)
orderColumn(row, orderBy) ==
  CASE orderBy = "watchedAt" -> row.watchedAt
    [] orderBy = "title" -> row.title
    [] orderBy = "channelName" -> row.channelName

(* an ORDER BY that ignores the direction asked for *)
MayPrecede_ascending(a, b, orderBy, orderDir) ==
  ~SortsBefore(orderColumn(b, orderBy), orderColumn(a, orderBy))

(* row a may come before row b under ORDER BY orderBy orderDir *)
MayPrecede(a, b, orderBy, orderDir) ==
  IF orderDir = "desc"
    THEN ~SortsBefore(orderColumn(a, orderBy), orderColumn(b, orderBy))
    ELSE ~SortsBefore(orderColumn(b, orderBy), orderColumn(a, orderBy))

(* the sequences ORDER BY allows for a set of rows: rows equal in the column
   come in any order *)
RECURSIVE Sorted(_, _, _)
Sorted(rows, orderBy, orderDir) ==
  IF rows = {} THEN {<<>>}
  ELSE UNION {{<<r>> \o s : s \in Sorted(rows \ {r}, orderBy, orderDir)} :
                r \in {q \in rows : \A o \in rows : MayPrecede(q, o, orderBy, orderDir)}}

(* LIMIT n OFFSET k *)
LimitOffset(s, n, k) ==
  IF k >= Len(s) THEN <<>>
  ELSE SubSeq(s, k + 1, IF k + n < Len(s) THEN k + n ELSE Len(s))

(* WatchHistoryRepository.query: the results the statement can return *)
query(db, options) ==
  LET limit == Opt(options, "limit", DefaultLimit)
      offset == Opt(options, "offset", 0)
      orderBy == Opt(options, "orderBy", "watchedAt")
      orderDir == Opt(options, "orderDir", "desc")
      search == Opt(options, "search", "")
      dateFrom == Opt(options, "dateFrom", "")
      dateTo == Opt(options, "dateTo", "")
      includeAds == Opt(options, "includeAds", TRUE)
      tagIds == Opt(options, "tagIds", <<>>)
      tagLogic == Opt(options, "tagLogic", "OR")
      matchingIds == getWatchHistoryIdsByTags(db, tagIds, tagLogic)
      where(r) ==
        /\ ~includeAds => r.isAd = FALSE
        /\ search # "" => \/ ColumnLike(r.title, "%" \o search \o "%")
                          \/ ColumnLike(r.channelName, "%" \o search \o "%")
        /\ dateFrom # "" => TextLeq(dateFrom, r.watchedAt)
        /\ dateTo # "" => TextLeq(r.watchedAt, dateTo)
        /\ Len(tagIds) > 0 => r.id \in matchingIds
  IN IF Len(tagIds) > 0 /\ matchingIds = {} THEN {<<>>}
     ELSE {[i \in DOMAIN page |-> mapRowToEntry(page[i])] :
             page \in {LimitOffset(s, limit, offset) :
                         s \in Sorted({r \in db.watch_history : where(r)},
                                      orderBy, orderDir)}}

(* the watchedAt of the event inserted last *)
getLatestWatchedAt_lastInserted(db) ==
  IF db.watch_history = {} THEN NULL
  ELSE (CHOOSE r \in db.watch_history : \A o \in db.watch_history : o.id <= r.id).watchedAt

(* WatchHistoryRepository.getLatestWatchedAt: SELECT MAX(watched_at), NULL
   over no rows *)
getLatestWatchedAt(db) ==
  IF db.watch_history = {} THEN NULL
  ELSE CHOOSE t \in {r.watchedAt : r \in db.watch_history} :
         \A r \in db.watch_history : TextLeq(r.watchedAt, t)

(* a count that ignores its filters *)
count_unfiltered(db, options) == Cardinality(db.watch_history)

(* WatchHistoryRepository.count *)
count(db, options) ==
  LET search == Opt(options, "search", "")
      dateFrom == Opt(options, "dateFrom", "")
      dateTo == Opt(options, "dateTo", "")
      includeAds == Opt(options, "includeAds", TRUE)
      tagIds == Opt(options, "tagIds", <<>>)
      tagLogic == Opt(options, "tagLogic", "OR")
      matchingIds == getWatchHistoryIdsByTags(db, tagIds, tagLogic)
      where(r) ==
        /\ ~includeAds => r.isAd = FALSE
        /\ search # "" => \/ ColumnLike(r.title, "%" \o search \o "%")
                          \/ ColumnLike(r.channelName, "%" \o search \o "%")
        /\ dateFrom # "" => TextLeq(dateFrom, r.watchedAt)
        /\ dateTo # "" => TextLeq(r.watchedAt, dateTo)
        /\ Len(tagIds) > 0 => r.id \in matchingIds
  IN IF Len(tagIds) > 0 /\ matchingIds = {} THEN 0
     ELSE Cardinality({r \in db.watch_history : where(r)})

(* WatchHistoryRepository.getById: the entry of the row selected, if any *)
getById(db, id) == {mapRowToEntry(r) : r \in {q \in db.watch_history : q.id = id}}

(* WatchHistoryRepository.getByVideoId: the entries of one video *)
getByVideoId(db, videoId) ==
  {mapRowToEntry(r) : r \in {q \in db.watch_history : q.videoId = videoId}}

(* --------------------------- export / import --------------------------- *)

batchSize == 1000

(* A JSONL text is the sequence of its lines.  JSON.stringify writes an entry
   on one line (line breaks inside strings are escaped); JSON.parse reads a
   line of kind "json" back to its object and throws on any other line. *)
JSONstringify(entry) == [kind |-> "json", obj |-> entry]

IsBlank(line) == line.kind = "blank"

(* an export entry that leaves the notes out *)
buildExportEntry_withoutNotes(db, entry) ==
  {[videoId |-> entry.videoId, title |-> entry.title, url |-> entry.url,
    channelName |-> entry.channelName, channelUrl |-> entry.channelUrl,
    thumbnailUrl |-> entry.thumbnailUrl, watchedAt |-> entry.watchedAt,
    isAd |-> entry.isAd, source |-> entry.source,
    notes |-> <<>>,
    tags |-> [i \in DOMAIN ts |-> ts[i].name]] :
     ts \in Orderings(getTagsForVideo(db, entry.id))}

(* ExportService.buildExportEntry: the possible entries of one event *)
buildExportEntry(db, entry) ==
  {[videoId |-> entry.videoId, title |-> entry.title, url |-> entry.url,
    channelName |-> entry.channelName, channelUrl |-> entry.channelUrl,
    thumbnailUrl |-> entry.thumbnailUrl, watchedAt |-> entry.watchedAt,
    isAd |-> entry.isAd, source |-> entry.source,
    notes |-> [i \in DOMAIN ns |-> ns[i].content],
    tags |-> [i \in DOMAIN ts |-> ts[i].name]] :
     ns \in getByWatchHistoryId(db, entry.id),
     ts \in Orderings(getTagsForVideo(db, entry.id))}

(* the possible exports of the entries batch[i..] *)
RECURSIVE exportBatch(_, _, _)
exportBatch(db, batch, i) ==
  IF i > Len(batch) THEN {<<>>}
  ELSE {<<e>> \o rest : e \in buildExportEntry(db, batch[i]),
                        rest \in exportBatch(db, batch, i + 1)}

(* ExportService.exportAll: the while loop from offset on *)
RECURSIVE exportFrom(_, _, _)
exportFrom(db, offset, total) ==
  IF offset >= total THEN {<<>>}
  ELSE UNION {{es \o rest : es \in exportBatch(db, batch, 1),
                            rest \in exportFrom(db, offset + batchSize, total)} :
                batch \in query(db, [limit |-> batchSize, offset |-> offset])}

(* ExportService.exportAll: the possible values of result.entries *)
exportAll(db) == exportFrom(db, 0, count(db, <<>>))

(* ExportService.exportToJsonl: the possible texts *)
exportToJsonl(db) ==
  {[i \in DOMAIN es |-> JSONstringify(es[i])] : es \in exportAll(db)}

(* an import that skips a note the event already has *)
RECURSIVE importNotes_skipsExisting(_, _, _, _, _)
importNotes_skipsExisting(db, w, noteList, i, res) ==
  IF i > Len(noteList) THEN [db |-> db, res |-> res, threw |-> FALSE]
  ELSE IF \E n \in db.notes : n.watchHistoryId = w /\ n.content = noteList[i]
    THEN importNotes_skipsExisting(db, w, noteList, i + 1, res)
  ELSE LET r == add(db, w, noteList[i])
       IN IF r.threw THEN [db |-> db, res |-> res, threw |-> TRUE]
          ELSE importNotes_skipsExisting(r.db, w, noteList, i + 1,
                                         [res EXCEPT !.notesCreated = @ + 1])

(* ExportService.importEntry, the loop over entry.notes[i..] *)
RECURSIVE importNotes(_, _, _, _, _)
importNotes(db, w, noteList, i, res) ==
  IF i > Len(noteList) THEN [db |-> db, res |-> res, threw |-> FALSE]
  ELSE LET r == add(db, w, noteList[i])
       IN IF r.threw THEN [db |-> db, res |-> res, threw |-> TRUE]
          ELSE importNotes(r.db, w, noteList, i + 1,
                           [res EXCEPT !.notesCreated = @ + 1])

(* an import that assigns every listed tag without asking hasTag *)
importTags_alwaysAssigns(db, w, tagList, i, res) ==
  [db |-> db, res |-> [res EXCEPT !.tagAssignments = @ + Len(tagList)],
   threw |-> FALSE]

(* ExportService.importEntry, the loop over entry.tags[i..]; a tag name that
   is not a string has no trim method *)
RECURSIVE importTags(_, _, _, _, _)
importTags(db, w, tagList, i, res) ==
  IF i > Len(tagList) THEN [db |-> db, res |-> res, threw |-> FALSE]
  ELSE IF tagList[i] = NULL THEN [db |-> db, res |-> res, threw |-> TRUE]
  ELSE LET g == getOrCreate(db, tagList[i])
           tag == FirstRow(g.ret)
       IN IF g.threw THEN [db |-> g.db, res |-> res, threw |-> TRUE]
          ELSE IF hasTag(g.db, w, tag.id)
            THEN importTags(g.db, w, tagList, i + 1, res)
          ELSE importTags(assign(g.db, w, tag.id).db, w, tagList, i + 1,
                          [res EXCEPT !.tagAssignments = @ + 1])

(* ExportService.importEntry *)
importEntry(db, entry, result) ==
  LET ins == insert(db, [f \in DOMAIN entry \ {"notes", "tags"} |-> entry[f]])
      res == IF ins.ret THEN [result EXCEPT !.imported = @ + 1]
                        ELSE [result EXCEPT !.duplicates = @ + 1]
      entries == getByVideoId(ins.db, Opt(entry, "videoId", NULL))
      found == {e \in entries : e.watchedAt = Opt(entry, "watchedAt", NULL)}
  IN IF entries = {} \/ found = {}
       THEN [db |-> ins.db, res |-> res, threw |-> FALSE]
       ELSE LET watchHistoryId == FirstRow(found).id
                n == importNotes(ins.db, watchHistoryId,
                                 Opt(entry, "notes", <<>>), 1, res)
            IN IF n.threw THEN n
               ELSE importTags(n.db, watchHistoryId,
                               Opt(entry, "tags", <<>>), 1, n.res)

(* ExportService.importFromJsonl: the loop over lines[i..]; the index of a
   line is its position among the non-blank lines, from 0 *)
RECURSIVE importLines(_, _, _, _)
importLines(db, lines, i, result) ==
  IF i > Len(lines) THEN [db |-> db, ret |-> result]
  ELSE IF lines[i].kind # "json"
    THEN importLines(db, lines, i + 1,
                     [result EXCEPT !.errors = Append(@, i - 1)])
  ELSE LET r == importEntry(db, lines[i].obj, result)
       IN importLines(r.db, lines, i + 1,
                      IF r.threw THEN [r.res EXCEPT !.errors = Append(@, i - 1)]
                                 ELSE r.res)

(* an import that gives up at the first line that does not parse *)
importFromJsonl_stopsAtBadLine(db, jsonl) ==
  LET lines == SelectSeq(jsonl, LAMBDA line : ~IsBlank(line))
      bad == {i \in 1..Len(lines) : lines[i].kind # "json"}
      stop == IF bad = {} THEN Len(lines)
              ELSE CHOOSE i \in bad : \A j \in bad : i <= j
  IN importLines(db, SubSeq(lines, 1, stop), 1,
                 [imported |-> 0, duplicates |-> 0, notesCreated |-> 0,
                  tagsCreated |-> 0, tagAssignments |-> 0, errors |-> <<>>])

(* ExportService.importFromJsonl *)
importFromJsonl(db, jsonl) ==
  importLines(db, SelectSeq(jsonl, LAMBDA line : ~IsBlank(line)), 1,
              [imported |-> 0, duplicates |-> 0, notesCreated |-> 0,
               tagsCreated |-> 0, tagAssignments |-> 0, errors |-> <<>>])

(* ------------------------------ inputs --------------------------------- *)

Entry(videoId, watchedAt, title, channelName, isAd, source) ==
  [videoId |-> videoId, title |-> title, url |-> "u-" \o videoId,
   channelName |-> channelName,
   channelUrl |-> IF channelName = NULL THEN NULL ELSE "c-" \o channelName,
   thumbnailUrl |-> "t-" \o videoId, watchedAt |-> watchedAt,
   isAd |-> isAd, source |-> source]

Without(e, field) == [f \in DOMAIN e \ {field} |-> e[f]]

RecA == Entry("v1", "12:00", "Ab", "Ch", FALSE, "takeout")

(* the key of RecA with other values in every other field *)
RecA2 == Entry("v1", "12:00", "a_", NULL, TRUE, "playwright")

(* the video of RecA watched at another instant; no channel *)
RecB == Entry("v1", "14:00", "a_", NULL, TRUE, "playwright")

(* another video at the instant of RecA; no thumbnailUrl property *)
RecC == Without(Entry("v2", "12:00", "B%", "Ab", FALSE, "takeout"), "thumbnailUrl")

(* a source outside the CHECK constraint *)
RecBadSource == Entry("v2", "10:00", "Ab", "Ch", FALSE, "other")

(* the key of RecA without the required title *)
RecNoTitle == Without(RecA, "title")

ValidRecords == {RecA, RecA2, RecB, RecC}

Records == ValidRecords \cup {RecBadSource, RecNoTitle}

EventIds == 1..(MaxEventId + 1)

TagIds == 1..(MaxTagId + 1)

NoteIds == 1..(MaxNoteId + 1)

TagNames == {"x", "y", " x"}

NoteContents == {"n1", "n2"}

JsonLine(e, noteList, tagList) ==
  JSONstringify([f \in DOMAIN e \cup {"notes", "tags"} |->
                   IF f = "notes" THEN noteList
                   ELSE IF f = "tags" THEN tagList ELSE e[f]])

(* lines of plain events, a line that is no JSON and an empty line *)
Lines ==
  {JsonLine(e, <<>>, <<>>) : e \in {RecA, RecA2, RecC, RecNoTitle}}
    \cup {[kind |-> "bad"], [kind |-> "blank"]}

(* ------------------------------ actions -------------------------------- *)

(* Each action is one call on the store.  last keeps the name of the call
   and what it returned; the arguments are quantified in the properties. *)

(* a call that adds rows keeps the row counters within the bounds *)
WithinBounds(db) ==
  /\ db.seq.watch_history <= IF db.seq.watch_history = seq.watch_history
                                THEN seq.watch_history ELSE MaxEventId
  /\ db.seq.notes <= IF db.seq.notes = seq.notes THEN seq.notes ELSE MaxNoteId
  /\ db.seq.tags <= IF db.seq.tags = seq.tags THEN seq.tags ELSE MaxTagId

Tables(db) ==
  /\ watch_history' = db.watch_history
  /\ notes' = db.notes
  /\ tags' = db.tags
  /\ video_tags' = db.video_tags
  /\ seq' = db.seq
  /\ schema' = schema
  /\ clock' = clock

(* a call that runs from start to end with no other call resumed meanwhile *)
Store(db) == Tables(db) /\ calls' = calls

Commit(db) == WithinBounds(db) /\ Store(db)

(* ----------------------------- the schema ------------------------------ *)

SCHEMA_VERSION == 2

(* a database file: the tables it has and the value of the schema_version
   row of sync_meta, 0 when there is no such row *)
NoSchema == [tables |-> {}, version |-> 0]

(* getSchemaVersion: 0 when the SELECT throws or finds no row *)
getSchemaVersion(s) == IF "sync_meta" \in s.tables THEN s.version ELSE 0

(* migrateToV1: CREATE TABLE IF NOT EXISTS ..., INSERT OR REPLACE version 1 *)
migrateToV1(s) ==
  [tables |-> s.tables \cup {"watch_history", "sync_meta"}, version |-> 1]

(* migrateToV2: CREATE TABLE IF NOT EXISTS ..., INSERT OR REPLACE version 2 *)
migrateToV2(s) ==
  [tables |-> s.tables \cup {"notes", "tags", "video_tags"}, version |-> 2]

(* a start-up that stops after the first step it applies *)
ensureSchema_oneStep(s) ==
  LET currentVersion == getSchemaVersion(s)
  IN IF currentVersion < 1 THEN [schema |-> migrateToV1(s), steps |-> <<1>>]
     ELSE IF currentVersion < 2 THEN [schema |-> migrateToV2(s), steps |-> <<2>>]
     ELSE [schema |-> s, steps |-> <<>>]

(* ensureSchema; steps lists the target versions of the migrations run *)
ensureSchema(s) ==
  LET currentVersion == getSchemaVersion(s)
      v1 == IF currentVersion < 1
              THEN [schema |-> migrateToV1(s), steps |-> <<1>>]
              ELSE [schema |-> s, steps |-> <<>>]
  IN IF currentVersion < 2
       THEN [schema |-> migrateToV2(v1.schema), steps |-> Append(v1.steps, 2)]
       ELSE v1

(* the callers whose promises may be pending together, and a caller with
   no pending promise *)
Callers == {"a", "b"}

Settled == [op |-> "none"]

Init ==
  /\ watch_history = {}
  /\ notes = {}
  /\ tags = {}
  /\ video_tags = EmptyBag
  /\ seq = [watch_history |-> 0, notes |-> 0, tags |-> 0]
  /\ schema = ensureSchema(NoSchema).schema
  /\ calls = [c \in Callers |-> Settled]
  /\ clock = 0
  /\ last = [op |-> "init"]

InsertFrom(entries) ==
  \E e \in entries :
    LET r == insert(DB, e)
    IN /\ Commit(r.db)
       /\ last' = [op |-> "insert", ret |-> r.ret]

Insert == InsertFrom(Records)

Batches == SeqsUpTo({RecA, RecA2, RecB, RecBadSource}, MaxBatch)

BulkInsert ==
  \E es \in Batches :
    LET r == bulkInsert(DB, es)
    IN /\ Commit(r.db)
       /\ last' = [op |-> "bulkInsert", ret |-> r.ret]

Delete ==
  \E id \in EventIds :
    LET r == delete(DB, id)
    IN /\ Commit(r.db)
       /\ last' = [op |-> "delete", ret |-> r.ret,
                   notes |-> Cardinality({n \in notes : n.watchHistoryId = id}),
                   tags |-> Cardinality({p \in DOMAIN video_tags : p.watchHistoryId = id})]

(* the number of tag names listed in the lines jsonl[i..] *)
RECURSIVE Listed(_, _)
Listed(jsonl, i) ==
  IF i > Len(jsonl) THEN 0
  ELSE Listed(jsonl, i + 1) +
         (IF jsonl[i].kind = "json" THEN Len(Opt(jsonl[i].obj, "tags", <<>>)) ELSE 0)

ImportFrom(texts) ==
  \E jsonl \in texts :
    LET r == importFromJsonl(DB, jsonl)
    IN /\ Commit(r.db)
       /\ last' = [op |-> "importFromJsonl", ret |-> r.ret,
                   lines |-> Len(jsonl), listed |-> Listed(jsonl, 1)]

Texts == SeqsUpTo(Lines, MaxLines)

ImportFromJsonl == ImportFrom(Texts)

(* texts with a line that is no JSON between lines of events *)
BrokenTexts ==
  LET A == JsonLine(RecA, <<>>, <<>>)
      C == JsonLine(RecC, <<>>, <<>>)
  IN {<<A, [kind |-> "bad"], C>>, <<A, [kind |-> "blank"], [kind |-> "bad"], C>>}

ImportBroken == ImportFrom(BrokenTexts)

(* exportToJsonl, then importFromJsonl of the text into an empty store *)
ExportImport ==
  \E jsonl \in exportToJsonl(DB) :
    LET r == importFromJsonl(EmptyDB, jsonl)
    IN /\ last' = [op |-> "exportImport", ret |-> r.ret]
       /\ UNCHANGED <<watch_history, notes, tags, video_tags, seq, schema, calls, clock>>

Create ==
  \E name \in TagNames :
    LET r == create(DB, name)
    IN /\ Commit(r.db)
       /\ last' = [op |-> "create", threw |-> r.threw, ret |-> r.ret]

(* first: what the call before returned, when it was getOrCreate(name) too *)
GetOrCreate ==
  \E name \in TagNames :
    LET r == getOrCreate(DB, name)
    IN /\ Commit(r.db)
       /\ last' = [op |-> "getOrCreate", name |-> name, threw |-> r.threw,
                   ret |-> r.ret,
                   first |-> IF last.op = "getOrCreate" /\ last.name = name
                               THEN last.ret ELSE {}]

Rename ==
  \E id \in TagIds, name \in TagNames :
    LET r == rename(DB, id, name)
    IN /\ Commit(r.db)
       /\ last' = [op |-> "rename", threw |-> r.threw, ret |-> r.ret]

TagsDelete ==
  \E id \in TagIds :
    LET r == tags_delete(DB, id)
    IN /\ Commit(r.db)
       /\ last' = [op |-> "tags.delete", ret |-> r.ret,
                   removed |-> Cardinality({p \in DOMAIN video_tags : p.tagId = id})]

Assign ==
  \E w \in EventIds, t \in TagIds :
    LET r == assign(DB, w, t)
    IN /\ Commit(r.db)
       /\ last' = [op |-> "assign", ret |-> r.ret, had |-> hasTag(DB, w, t)]

Remove ==
  \E w \in EventIds, t \in TagIds :
    LET r == remove(DB, w, t)
    IN /\ Commit(r.db)
       /\ last' = [op |-> "remove", ret |-> r.ret]

(* the lists of up to MaxIds ids of S, in ascending order, repeats included *)
IdLists(S) ==
  {s \in SeqsUpTo(S, MaxIds) : \A i \in 1..(Len(s) - 1) : s[i] <= s[i + 1]}

BulkAssign ==
  \E ws \in IdLists(EventIds), t \in TagIds :
    LET r == bulkAssign(DB, ws, t)
    IN /\ Commit(r.db)
       /\ last' = [op |-> "bulkAssign", ret |-> r.ret]

SetVideoTags ==
  \E w \in EventIds, ts \in IdLists(TagIds) :
    LET r == setVideoTags(DB, w, ts)
    IN /\ Commit(r.db)
       /\ last' = [op |-> "setVideoTags", threw |-> r.threw,
                   had |-> {t \in TagIds : hasTag(DB, w, t)},
                   given |-> Range(ts)]

NotesAddFrom(contents) ==
  \E w \in EventIds, content \in contents :
    LET r == add(DB, w, content)
    IN /\ Commit(r.db)
       /\ last' = [op |-> "notes.add", threw |-> r.threw]

NotesAdd == NotesAddFrom(NoteContents \cup {NULL})

NotesDelete ==
  \E id \in NoteIds :
    LET r == notes_delete(DB, id)
    IN /\ Commit(r.db)
       /\ last' = [op |-> "notes.delete", ret |-> r.ret]

NotesUpdate ==
  \E id \in NoteIds, content \in {"n2", NULL} :
    LET r == update(DB, id, content)
    IN /\ Commit(r.db)
       /\ last' = [op |-> "notes.update", threw |-> r.threw, ret |-> r.ret]

UpdateColor ==
  \E id \in TagIds :
    LET r == updateColor(DB, id, "red")
    IN /\ Commit(r.db)
       /\ last' = [op |-> "updateColor", ret |-> r.ret]

GetById ==
  \E id \in EventIds :
    /\ last' = [op |-> "getById", ret |-> getById(DB, id)]
    /\ UNCHANGED <<watch_history, notes, tags, video_tags, seq, schema, calls, clock>>

GetByWatchHistoryId ==
  \E w \in EventIds :
    \E res \in getByWatchHistoryId(DB, w) :
      /\ last' = [op |-> "getByWatchHistoryId", ret |-> res]
      /\ UNCHANGED <<watch_history, notes, tags, video_tags, seq, schema, calls, clock>>

GetTagsForVideo ==
  \E w \in EventIds :
    /\ last' = [op |-> "getTagsForVideo", ret |-> getTagsForVideo(DB, w)]
    /\ UNCHANGED <<watch_history, notes, tags, video_tags, seq, schema, calls, clock>>

(* the watch-event store and the import path *)
Next == Insert \/ BulkInsert \/ Delete \/ ImportFromJsonl \/ ImportBroken

Spec == Init /\ [][Next]_vars

(* the annotation repositories and the export service, over two videos *)
AnnotatedRecords == {RecA, RecC}

InsertAnnotated == InsertFrom(AnnotatedRecords)

(* lines that carry tags and no notes *)
TaggedLines ==
  {JsonLine(e, <<>>, ts) : e \in AnnotatedRecords,
                           ts \in {<<>>, <<" x", "y">>, <<"y", "y">>, <<NULL>>}}
    \cup {[kind |-> "bad"]}

(* texts of one tagged line, and the empty text *)
ImportTagged == ImportFrom({<<>>} \cup {<<l>> : l \in TaggedLines})

(* the tag and video-tag repositories, with the import path *)
NextTags ==
  \/ InsertAnnotated \/ GetOrCreate \/ Assign \/ Remove \/ BulkAssign
  \/ SetVideoTags \/ ImportTagged

SpecTags == Init /\ [][NextTags]_vars

(* events with notes and tags, exported and imported into an empty store *)
NextExport == InsertAnnotated \/ Create \/ Assign \/ NotesAdd \/ ExportImport

SpecExport == Init /\ [][NextExport]_vars

AddNote == NotesAddFrom({"n1"})

(* events with notes and tags, and their deletion *)
NextDelete == InsertAnnotated \/ Create \/ Assign \/ AddNote \/ Delete

SpecDelete == Init /\ [][NextDelete]_vars

InsertOne == InsertFrom({RecA})

(* datetime('now') has a resolution of one second: the clock is the second
   of the wall clock, and a second passes between some calls and not others *)
Seconds == {0, 1}

Tick ==
  /\ clock + 1 \in Seconds
  /\ clock' = clock + 1
  /\ last' = [op |-> "tick"]
  /\ UNCHANGED <<watch_history, notes, tags, video_tags, seq, schema, calls>>

AddNotes == NotesAddFrom(NoteContents \cup {"", NULL})

(* notes of one event added in the same second or a second apart *)
NextNotes == InsertOne \/ AddNotes \/ Tick \/ GetByWatchHistoryId

SpecNotes == Init /\ [][NextNotes]_vars

(* exportToJsonl, then importFromJsonl of the text into an empty store, and
   importFromJsonl of the same text into that store again *)
Reimport ==
  \E jsonl \in exportToJsonl(DB) :
    LET first == importFromJsonl(EmptyDB, jsonl)
        second == importFromJsonl(first.db, jsonl)
    IN /\ last' = [op |-> "reimport", first |-> first.ret, second |-> second.ret]
       /\ UNCHANGED <<watch_history, notes, tags, video_tags, seq, schema, calls, clock>>

NextReimport == InsertAnnotated \/ NotesAdd \/ Reimport

SpecReimport == Init /\ [][NextReimport]_vars

(* a database file as an earlier or the present version of the program left
   it: no tables, the tables of version 1, or those of version 2 *)
InitStored ==
  /\ watch_history = {}
  /\ notes = {}
  /\ tags = {}
  /\ video_tags = EmptyBag
  /\ seq = [watch_history |-> 0, notes |-> 0, tags |-> 0]
  /\ schema \in {NoSchema, migrateToV1(NoSchema), ensureSchema(NoSchema).schema}
  /\ calls = [c \in Callers |-> Settled]
  /\ clock = 0
  /\ last = [op |-> "init"]

(* initDatabase on the file: the rows of the tables are not touched *)
InitDatabase ==
  LET r == ensureSchema(schema)
  IN /\ schema' = r.schema
     /\ last' = [op |-> "initDatabase", steps |-> r.steps,
                 rows |-> Cardinality(watch_history) + Cardinality(notes)]
     /\ UNCHANGED <<watch_history, notes, tags, video_tags, seq, calls, clock>>

(* the program of version 1 stored events; notes need the tables of version 2 *)
InsertStored == "watch_history" \in schema.tables /\ InsertAnnotated

AddNoteStored == "notes" \in schema.tables /\ NotesAdd

NextSchema == InitDatabase \/ InsertStored \/ AddNoteStored

SpecSchema == InitStored /\ [][NextSchema]_vars

(* the operations that address one row by its id *)
NextRows ==
  \/ InsertOne \/ AddNote \/ Create \/ Assign
  \/ Delete \/ NotesDelete \/ TagsDelete \/ Remove \/ NotesUpdate
  \/ GetById \/ GetByWatchHistoryId \/ GetTagsForVideo

SpecRows == Init /\ [][NextRows]_vars

(* the option sets fs, each also with every value of vals as option name *)
AddOption(fs, name, vals) ==
  fs \cup {[g \in DOMAIN f \cup {name} |-> IF g = name THEN v ELSE f[g]] :
             f \in fs, v \in vals}

(* the filters of the calls: every combination of the ad and tag options *)
CalledFilters ==
  AddOption(AddOption(AddOption({[offset |-> 0]},
    "includeAds", {FALSE}), "tagIds", {<<1, 2>>}), "tagLogic", {"AND"})

(* the filters compared: every combination of one or no value per option *)
Filters ==
  AddOption(AddOption(AddOption(CalledFilters,
    "search", {"a"}), "dateFrom", {"12:00"}), "dateTo", {"13:00"})

QueryRecords == {RecA, RecB, RecC}

InsertQueriedFrom(entries) ==
  \E e \in entries :
    LET r == insert(DB, e)
    IN /\ r.db.seq.watch_history <= MaxQueryEvents
       /\ Store(r.db)
       /\ last' = [op |-> "insert", ret |-> r.ret]

InsertQueried == InsertQueriedFrom(QueryRecords)

(* count(f), then query(f) with offset 0 and a limit as large as the store *)
CountAndQuery ==
  \E f \in CalledFilters :
    \E res \in query(DB, [g \in DOMAIN f \cup {"limit"} |->
                            IF g = "limit" THEN MaxQueryEvents + 1 ELSE f[g]]) :
      /\ last' = [op |-> "query", count |-> count(DB, f), length |-> Len(res)]
      /\ UNCHANGED <<watch_history, notes, tags, video_tags, seq, schema, calls, clock>>

(* the query operations over three tagged events *)
NextQuery == InsertQueried \/ Create \/ Assign \/ CountAndQuery

SpecQuery == Init /\ [][NextQuery]_vars

(* an ad without channel and a video of another day's hour, to count *)
InsertCounted == InsertFrom({RecB, RecC})

(* count and query over two events that differ in every filtered column *)
NextCount == InsertCounted \/ Create \/ Assign \/ Remove \/ CountAndQuery

SpecCount == Init /\ [][NextCount]_vars

(* the tag repository, with events the tags are assigned to *)
NextTagNames ==
  \/ InsertAnnotated \/ Create \/ GetOrCreate \/ Rename \/ UpdateColor
  \/ TagsDelete \/ Assign

SpecTagNames == Init /\ [][NextTagNames]_vars

(* query with the ordering and paging options *)
PageOptions ==
  {[includeAds |-> TRUE],
   [limit |-> 2],
   [orderDir |-> "asc", offset |-> 1],
   [orderBy |-> "title", orderDir |-> "asc", limit |-> 1, offset |-> 1],
   [orderBy |-> "title", orderDir |-> "desc"],
   [orderBy |-> "channelName", orderDir |-> "asc", limit |-> 2],
   [orderBy |-> "channelName", limit |-> 1, offset |-> 2]}

(* query(o) and count(o) for one of the given option records *)
QueryWith(options) ==
  \E o \in options :
    \E res \in query(DB, o) :
      /\ last' = [op |-> "query", options |-> o,
                  page |-> [i \in DOMAIN res |-> res[i].id],
                  count |-> count(DB, o)]
      /\ UNCHANGED <<watch_history, notes, tags, video_tags, seq, schema, calls, clock>>

QueryPage == QueryWith(PageOptions)

NextOrder == InsertQueried \/ QueryPage

SpecOrder == Init /\ [][NextOrder]_vars

(* events at 10:00, 12:00 and 14:00, queried with bounds on watchedAt *)
RecEarly == Entry("v2", "10:00", "Ab", "Ch", FALSE, "takeout")

InsertDated == InsertQueriedFrom({RecEarly, RecA, RecB})

DateOptions ==
  {[dateFrom |-> "11:00", dateTo |-> "13:00"], [dateFrom |-> "12:00"],
   [dateTo |-> "12:00"], [dateFrom |-> "12:00", dateTo |-> "12:00"],
   [dateTo |-> "10:00"], [dateFrom |-> "13:00", dateTo |-> "11:00"]}

QueryDates == QueryWith(DateOptions)

NextDates == InsertDated \/ QueryDates

SpecDates == Init /\ [][NextDates]_vars

(* query and count with a search string *)
SearchOptions ==
  {[search |-> "a"], [search |-> "AB"], [search |-> "ch"], [search |-> "_"],
   [search |-> "%"], [search |-> "b%"]}

QuerySearch == QueryWith(SearchOptions)

NextSearch == InsertQueried \/ QuerySearch

SpecSearch == Init /\ [][NextSearch]_vars

(* the latest watchedAt over inserts and deletes *)
GetLatestWatchedAt ==
  /\ last' = [op |-> "getLatestWatchedAt", ret |-> getLatestWatchedAt(DB)]
  /\ UNCHANGED <<watch_history, notes, tags, video_tags, seq, schema, calls, clock>>

NextLatest == InsertDated \/ Delete \/ GetLatestWatchedAt

SpecLatest == Init /\ [][NextLatest]_vars

(* async insert: the statement runs inside the call; the promise settles in
   a later turn.  stored records whether a row with the key existed when the
   statement ran *)
AsyncRecords == {RecA, RecA2, RecC, RecBadSource}

InsertCall ==
  \E c \in Callers, e \in AsyncRecords :
    LET r == insert(DB, e)
    IN /\ calls[c] = Settled
       /\ WithinBounds(r.db) /\ Tables(r.db)
       /\ calls' = [calls EXCEPT ![c] =
                      [op |-> "insert", entry |-> e, ret |-> r.ret,
                       stored |-> \E w \in watch_history : SameKey(w, NewRow(0, e))]]
       /\ last' = [op |-> "insert", caller |-> c]

InsertSettle ==
  \E c \in Callers :
    /\ calls[c].op = "insert"
    /\ calls' = [calls EXCEPT ![c] = Settled]
    /\ last' = [op |-> "insert", caller |-> c, ret |-> calls[c].ret]
    /\ UNCHANGED <<watch_history, notes, tags, video_tags, seq, schema, clock>>

(* async bulkInsert: each turn of the loop runs insert(entries[i]) and then
   awaits it, which lets every other pending call run before the next turn.
   before holds the keys stored when the call began *)
AsyncBatches ==
  {<<RecA, RecC>>, <<RecC, RecA2>>, <<RecBadSource, RecA>>, <<RecA, RecA2, RecC>>}

BulkInsertTurn(c, es, i, res, before) ==
  LET r == bulkInsertFrom(DB, SubSeq(es, 1, i), i, res)
  IN /\ WithinBounds(r.db) /\ Tables(r.db)
     /\ calls' = [calls EXCEPT ![c] =
                    [op |-> "bulkInsert", entries |-> es, i |-> i,
                     res |-> r.ret, before |-> before]]
     /\ last' = [op |-> "bulkInsert", caller |-> c]

BulkInsertCall ==
  \E c \in Callers, es \in AsyncBatches :
    /\ calls[c] = Settled
    /\ BulkInsertTurn(c, es, 1, [inserted |-> 0, duplicates |-> 0, errors |-> <<>>],
                      {<<w.videoId, w.watchedAt>> : w \in watch_history})

BulkInsertResume ==
  \E c \in Callers :
    /\ calls[c].op = "bulkInsert"
    /\ calls[c].i < Len(calls[c].entries)
    /\ BulkInsertTurn(c, calls[c].entries, calls[c].i + 1, calls[c].res,
                      calls[c].before)

BulkInsertSettle ==
  \E c \in Callers :
    /\ calls[c].op = "bulkInsert"
    /\ calls[c].i = Len(calls[c].entries)
    /\ calls' = [calls EXCEPT ![c] = Settled]
    /\ last' = [op |-> "bulkInsert", caller |-> c, ret |-> calls[c].res]
    /\ UNCHANGED <<watch_history, notes, tags, video_tags, seq, schema, clock>>

(* count() called while other calls are pending *)
Count ==
  /\ last' = [op |-> "count", ret |-> count(DB, [offset |-> 0]),
              pending |-> {c \in Callers : calls[c] # Settled}]
  /\ UNCHANGED <<watch_history, notes, tags, video_tags, seq, schema, calls, clock>>

NextAsync ==
  \/ InsertCall \/ InsertSettle
  \/ BulkInsertCall \/ BulkInsertResume \/ BulkInsertSettle
  \/ Count

SpecAsync == Init /\ [][NextAsync]_vars

(* async getOrCreate: the lookup runs inside the call, which then awaits it;
   the rest of the function (return the tag found, or create it) runs in a
   later turn, after every call already pending had its turn.  existing is
   what the lookup found *)
GetOrCreateCall ==
  \E c \in Callers, name \in TagNames :
    /\ calls[c] = Settled
    /\ calls' = [calls EXCEPT ![c] =
                   [op |-> "getOrCreate", pc |-> "await", name |-> name,
                    existing |-> getByName(DB, name)]]
    /\ last' = [op |-> "getOrCreate", caller |-> c]
    /\ UNCHANGED <<watch_history, notes, tags, video_tags, seq, schema, clock>>

GetOrCreateResume ==
  \E c \in Callers :
    /\ calls[c].op = "getOrCreate"
    /\ calls[c].pc = "await"
    /\ LET r == IF calls[c].existing # {}
                  THEN [db |-> DB, threw |-> FALSE,
                        ret |-> {FirstRow(calls[c].existing)}]
                  ELSE create(DB, calls[c].name)
       IN /\ WithinBounds(r.db) /\ Tables(r.db)
          /\ calls' = [calls EXCEPT ![c] =
                         [op |-> "getOrCreate", pc |-> "done",
                          name |-> calls[c].name, existing |-> calls[c].existing,
                          threw |-> r.threw, ret |-> r.ret]]
          /\ last' = [op |-> "getOrCreate", caller |-> c]

GetOrCreateSettle ==
  \E c \in Callers :
    /\ calls[c].op = "getOrCreate"
    /\ calls[c].pc = "done"
    /\ calls' = [calls EXCEPT ![c] = Settled]
    /\ last' = [op |-> "getOrCreate", caller |-> c, name |-> calls[c].name,
                threw |-> calls[c].threw, ret |-> calls[c].ret]
    /\ UNCHANGED <<watch_history, notes, tags, video_tags, seq, schema, clock>>

NextGetOrCreate ==
  \/ GetOrCreateCall \/ GetOrCreateResume \/ GetOrCreateSettle
  \/ TagsDelete

SpecGetOrCreate == Init /\ [][NextGetOrCreate]_vars

(* ------------------------------ claims --------------------------------- *)

KeyOf(r) == <<r.videoId, r.watchedAt>>

Keys(rows) == {KeyOf(r) : r \in rows}

(* C1: after any sequence of insert, bulkInsert, importFromJsonl and delete
   calls, no two stored watch events have the same (videoId, watchedAt). *)
C1_NaturalKeyUnique ==
  \A r1, r2 \in watch_history : SameKey(r1, r2) => r1 = r2

(* a call came back without a new row while two events of one video, watched
   at different instants, are stored *)
C1_Witness ==
  /\ last.op \in {"insert", "importFromJsonl"}
  /\ IF last.op = "insert" THEN ~last.ret ELSE last.ret.duplicates > 0
  /\ \E r1, r2 \in watch_history :
       r1.videoId = r2.videoId /\ r1.watchedAt # r2.watchedAt

(* C2: insert(r) returns true exactly when no stored event had r's
   (videoId, watchedAt) before the call; true adds exactly one row, false adds
   none and leaves the stored events as they were. *)
C2_InsertContract ==
  \A e \in Records :
    LET r == insert(DB, e)
        stored == \E q \in watch_history : SameKey(q, NewRow(0, e))
    IN /\ r.ret <=> ~stored
       /\ r.ret => /\ watch_history \subseteq r.db.watch_history
                   /\ Cardinality(r.db.watch_history \ watch_history) = 1
       /\ ~r.ret => r.db = DB

(* C3: for a batch of valid records bulkInsert returns inserted = the number
   of distinct keys of the batch not stored before, duplicates = the number of
   the other records, errors = []; [A, A, B] on a store with neither gives
   {inserted: 2, duplicates: 1, errors: []}. *)
C3_BulkInsertCounts ==
  /\ \A es \in {b \in Batches : Range(b) \subseteq ValidRecords} :
       LET r == bulkInsert(DB, es)
           new == Keys(Range(es)) \ Keys(watch_history)
       IN /\ r.ret.inserted = Cardinality(new)
          /\ r.ret.duplicates = Len(es) - Cardinality(new)
          /\ r.ret.errors = <<>>
          /\ Keys(r.db.watch_history) = Keys(watch_history) \cup Keys(Range(es))
  /\ Keys({RecA, RecB}) \cap Keys(watch_history) = {}
       => bulkInsert(DB, <<RecA, RecA, RecB>>).ret =
            [inserted |-> 2, duplicates |-> 1, errors |-> <<>>]

(* a batch with one repeated record was inserted *)
C3_Witness ==
  /\ last.op = "bulkInsert"
  /\ last.ret = [inserted |-> 2, duplicates |-> 1, errors |-> <<>>]
  /\ Keys({RecA, RecB}) \subseteq Keys(watch_history)

WithLimit(f, n) == [g \in DOMAIN f \cup {"limit"} |-> IF g = "limit" THEN n ELSE f[g]]

(* C4: for every combination of the filters search, dateFrom, dateTo,
   includeAds, tagIds and tagLogic, in every reachable store, count(f) is the
   number of events query(f) returns with offset 0 and a limit at least as
   large as the store. *)
C4_CountMatchesQuery ==
  /\ \A f \in Filters :
       \A res \in query(DB, WithLimit(f, Cardinality(watch_history))) :
         count(DB, f) = Len(res)
  /\ last.op = "query" => last.count = last.length

(* count and query were called, and a filter on tags and on text keeps some
   of the events that have the tags and leaves others out *)
C4_Witness ==
  /\ last.op = "query"
  /\ last.count > 0
  /\ last.count < Cardinality(watch_history)
  /\ \E f \in Filters :
       /\ {"tagIds", "tagLogic", "search"} \subseteq DOMAIN f
       /\ count(DB, f) > 0
       /\ count(DB, [tagIds |-> f.tagIds, tagLogic |-> "AND"]) > count(DB, f)

TaggedWith(w) == {t \in TagIds : hasTag(DB, w, t)}

(* the tag filters of one tag and of two different tags *)
TagSets == {<<t>> : t \in TagIds} \cup {p \in TagIds \X TagIds : p[1] # p[2]}

QueryIds(f) ==
  {{res[i].id : i \in DOMAIN res} :
     res \in query(DB, WithLimit(f, Cardinality(watch_history)))}

(* C5: with a tag filter over a set T of tag ids, query returns under AND
   exactly the events that have every tag of T (extra tags allowed) and under
   OR exactly the events that have at least one tag of T; for A tagged {x},
   B tagged {y}, C tagged {x,y}, tagIds = [x,y] gives {A,B,C} under OR and {C}
   under AND. *)
C5_TagLogic ==
  /\ \A ts \in TagSets :
       /\ QueryIds([tagIds |-> ts, tagLogic |-> "AND"]) =
            {{r.id : r \in {q \in watch_history : Range(ts) \subseteq TaggedWith(q.id)}}}
       /\ QueryIds([tagIds |-> ts, tagLogic |-> "OR"]) =
            {{r.id : r \in {q \in watch_history : Range(ts) \cap TaggedWith(q.id) # {}}}}
  /\ \A a, b, c \in watch_history, x, y \in {t.id : t \in tags} :
       /\ x # y
       /\ TaggedWith(a.id) = {x} /\ TaggedWith(b.id) = {y} /\ TaggedWith(c.id) = {x, y}
       => /\ QueryIds([tagIds |-> <<x, y>>, tagLogic |-> "OR"]) = {{a.id, b.id, c.id}}
          /\ QueryIds([tagIds |-> <<x, y>>, tagLogic |-> "AND"]) = {{c.id}}

(* A tagged {x}, B tagged {y}, C tagged {x,y}, and the query for [x,y] under
   AND returned C alone *)
C5_Witness ==
  /\ last.op = "query" /\ last.count = 1
  /\ \E a, b, c \in watch_history, x, y \in {t.id : t \in tags} :
       /\ TaggedWith(a.id) = {x} /\ TaggedWith(b.id) = {y} /\ TaggedWith(c.id) = {x, y}
       /\ x # y
       /\ QueryIds([tagIds |-> <<x, y>>, tagLogic |-> "AND"]) = {{c.id}}
       /\ QueryIds([tagIds |-> <<x, y>>, tagLogic |-> "OR"]) = {{a.id, b.id, c.id}}

(* C6: deleting a watch event that has N notes and M tag associations leaves
   no note and no video_tags row of that event, while every tag, every other
   event and the notes and associations of the other events are unchanged. *)
C6_DeleteCascades ==
  \A id \in {e.id : e \in watch_history} :
    LET after == delete(DB, id).db
    IN /\ \A n \in after.notes : n.watchHistoryId # id
       /\ \A p \in DOMAIN after.video_tags : p.watchHistoryId # id
       /\ after.tags = tags
       /\ after.watch_history = {e \in watch_history : e.id # id}
       /\ after.notes = {n \in notes : n.watchHistoryId # id}
       /\ DOMAIN after.video_tags = {p \in DOMAIN video_tags : p.watchHistoryId # id}
       /\ \A p \in DOMAIN after.video_tags : after.video_tags[p] = video_tags[p]

(* an event with a note and a tag was deleted; the tag, another event and
   that event's note and tag are still stored *)
C6_Witness ==
  /\ last.op = "delete" /\ last.ret
  /\ last.notes > 0 /\ last.tags > 0
  /\ tags # {}
  /\ \E e \in watch_history :
       /\ \E n \in notes : n.watchHistoryId = e.id
       /\ \E p \in DOMAIN video_tags : p.watchHistoryId = e.id

(* what the repository returns of an event besides its id *)
CoreFields(row) == Without(mapRowToEntry(row), "id")

TagNamesOf(db, w) == {g.name : g \in getTagsForVideo(db, w)}

(* the multiset of the note contents of an event *)
NoteContentsOf(db, w) ==
  LET ns == {n \in db.notes : n.watchHistoryId = w}
  IN [c \in {n.content : n \in ns} |-> Cardinality({n \in ns : n.content = c})]

(* store b holds the events of store a with the same core fields, tag names
   and note contents *)
SameArchive(a, b) ==
  /\ Keys(a.watch_history) = Keys(b.watch_history)
  /\ Cardinality(a.watch_history) = Cardinality(b.watch_history)
  /\ \A e \in a.watch_history :
       \E n \in b.watch_history :
         /\ CoreFields(n) = CoreFields(e)
         /\ TagNamesOf(b, n.id) = TagNamesOf(a, e.id)
         /\ NoteContentsOf(b, n.id) = NoteContentsOf(a, e.id)

(* C7: exporting any store with exportToJsonl and importing the text with
   importFromJsonl into an empty store yields the same set of (videoId,
   watchedAt) keys with the same core fields per event, the same set of tag
   names per event and the same multiset of note contents per event. *)
C7_ExportImportRoundTrip ==
  \A jsonl \in exportToJsonl(DB) :
    LET r == importFromJsonl(EmptyDB, jsonl)
    IN /\ SameArchive(DB, r.db)
       /\ r.ret.imported = Cardinality(watch_history)
       /\ r.ret.errors = <<>>

(* a store of two events, one stored without thumbnail, with a tag on each and
   two notes of the same content on one of them was exported and imported *)
C7_Witness ==
  /\ last.op = "exportImport"
  /\ last.ret.imported = 2 /\ last.ret.tagAssignments >= 2
  /\ last.ret.notesCreated = 2
  /\ \E e \in watch_history : e.thumbnailUrl = NULL
  /\ \E e \in watch_history : \E c \in NoteContents : NoteContentsOf(DB, e.id) = [d \in {c} |-> 2]

(* lines of an event with or without tags and a note; RecA2 has the key of
   RecA and other values in the other fields *)
ReimportedLines ==
  {JsonLine(e, a[1], a[2]) :
     e \in {RecA2, RecC},
     a \in {<< <<>>, <<>> >>, << <<>>, <<" x", "y">> >>,
            << <<"n1">>, <<"y", "y">> >>, << <<"n1">>, <<"x">> >>}}

(* the store holds the event of the line with every tag the line lists *)
StoredWithTags(line) ==
  \E e \in watch_history :
    /\ SameKey(e, NewRow(0, line.obj))
    /\ \A i \in DOMAIN line.obj.tags : Trim(line.obj.tags[i]) \in TagNamesOf(DB, e.id)

(* C8: importing a text into a store that already contains every event of
   the text with the tags listed in it adds no event, no tag and no video_tags
   row: imported = 0, duplicates = the number of records, tagAssignments = 0,
   and every event's tag set is unchanged. *)
C8_ReimportKeepsTags ==
  \A jsonl \in SeqsUpTo({l \in ReimportedLines : StoredWithTags(l)}, 2) :
    LET r == importFromJsonl(DB, jsonl)
    IN /\ r.ret.imported = 0
       /\ r.ret.duplicates = Len(jsonl)
       /\ r.ret.tagAssignments = 0
       /\ r.ret.errors = <<>>
       /\ r.db.watch_history = watch_history
       /\ r.db.tags = tags
       /\ r.db.video_tags = video_tags

(* a line that lists tags was imported into a store that had its event with
   those tags *)
C8_Witness ==
  /\ last.op = "importFromJsonl"
  /\ last.lines > 0 /\ last.listed > 1
  /\ last.ret.imported = 0 /\ last.ret.duplicates = last.lines
  /\ last.ret.tagAssignments = 0 /\ last.ret.errors = <<>>
  /\ Cardinality(DOMAIN video_tags) > 1

(* C9: calling getOrCreate(name) twice in a row returns the same tag id both
   times and leaves exactly one tag row with that name, whether or not a tag
   with that name existed before the first call. *)
C9_GetOrCreateTwice ==
  /\ \A name \in TagNames :
       LET first == getOrCreate(DB, name)
           second == getOrCreate(first.db, name)
       IN /\ ~first.threw /\ ~second.threw
          /\ {t.id : t \in first.ret} = {t.id : t \in second.ret}
          /\ Cardinality(second.ret) = 1
          /\ Cardinality({t \in second.db.tags : t.name = Trim(name)}) = 1
  /\ last.op = "getOrCreate" /\ last.first # {} => last.ret = last.first

(* getOrCreate was called twice in a row with a name in need of trimming, and
   the first call created the tag *)
C9_Witness ==
  /\ last.op = "getOrCreate" /\ last.name = " x"
  /\ last.first # {} /\ last.ret = last.first
  /\ \A t \in last.ret : t.id = seq.tags /\ t.name = "x"

(* C10: assign(eventId, tagId) for an existing event and tag returns true
   whether or not the pair was already assigned, and after any sequence of
   assign, bulkAssign, setVideoTags and import calls there is at most one
   video_tags row per (watchHistoryId, tagId) pair. *)
C10_AssignIdempotent ==
  /\ \A p \in DOMAIN video_tags : video_tags[p] = 1
  /\ \A w \in EventIds, t \in TagIds :
       video_tags_foreign_keys(DB, w, t) =>
         LET r == assign(DB, w, t)
         IN /\ r.ret
            /\ CopiesIn(VT(w, t), r.db.video_tags) = 1
            /\ hasTag(DB, w, t) => r.db = DB
  /\ last.op = "assign" /\ last.had => last.ret

(* an assigned pair was assigned again *)
C10_Witness ==
  /\ last.op = "assign" /\ last.had /\ last.ret
  /\ Cardinality(DOMAIN video_tags) > 1

(* the rows of video_tags that belong to other events than w *)
OthersTags(db, w) ==
  [p \in {q \in DOMAIN db.video_tags : q.watchHistoryId # w} |-> db.video_tags[p]]

(* C11: after setVideoTags(eventId, tagIds) with existing tag ids, the set of
   tags associated with the event is exactly the given set, whatever
   associations the event had before, and the associations of every other
   event are unchanged. *)
C11_SetVideoTagsReplaces ==
  \A e \in watch_history :
    \A ts \in {l \in SeqsUpTo({t.id : t \in tags}, MaxIds) : IsInjective(l)} :
      LET r == setVideoTags(DB, e.id, ts)
      IN /\ ~r.threw
         /\ {t \in TagIds : hasTag(r.db, e.id, t)} = Range(ts)
         /\ {g.id : g \in getTagsForVideo(r.db, e.id)} = Range(ts)
         /\ OthersTags(r.db, e.id) = OthersTags(DB, e.id)
         /\ r.db.tags = tags /\ r.db.watch_history = watch_history

(* an event that had a tag outside the given set was given another set, while
   another event keeps its tag *)
C11_Witness ==
  /\ last.op = "setVideoTags" /\ ~last.threw
  /\ last.given # {} /\ last.had \ last.given # {}
  /\ \E e \in watch_history :
       /\ {t \in TagIds : hasTag(DB, e.id, t)} = last.given
       /\ \E o \in watch_history : o.id # e.id /\ OthersTags(DB, e.id) # EmptyBag

(* C12: after any sequence of create, getOrCreate, rename and delete calls
   on tags, no two stored tags have the same name; create(name) with a name
   that after trimming equals an existing tag's name fails with an error and
   leaves the tag table unchanged. *)
C12_TagNamesUnique ==
  /\ \A t1, t2 \in tags : t1.name = t2.name => t1 = t2
  /\ \A name \in TagNames :
       (\E t \in tags : t.name = Trim(name)) =>
         LET r == create(DB, name)
         IN r.threw /\ r.ret = {} /\ r.db = DB
  /\ last.op = "create" /\ last.threw => last.ret = {}

(* create failed on a taken name while two tags are stored, one of them
   renamed or created after a delete *)
C12_Witness ==
  /\ last.op = "create" /\ last.threw
  /\ Cardinality(tags) = 2
  /\ \E t \in tags : t.name = "y" /\ t.id = 1

(* C13: in bulkInsert a record whose insert fails for a reason other than a
   duplicate natural key (a source outside {takeout, playwright}, a missing
   required field) is reported in errors with its position in the batch, is
   not counted in duplicates, and the records after it are still processed. *)
C13_BulkInsertReportsErrors ==
  \A es \in Batches :
    LET r == bulkInsert(DB, es)
        rejected == {i \in 1..Len(es) : ~watch_history_constraints(NewRow(0, es[i]))}
    IN /\ \A i \in rejected : (i - 1) \in Range(r.ret.errors)
       /\ r.ret.inserted + r.ret.duplicates = Len(es) - Cardinality(rejected)
       /\ \A i \in 1..Len(es) :
            i \notin rejected => \E w \in r.db.watch_history : SameKey(w, NewRow(0, es[i]))

(* the keys a pending bulkInsert adds: those of its storable records that
   were not stored when it began *)
NewKeys(call) ==
  {KeyOf(NewRow(0, call.entries[i])) :
     i \in {j \in 1..Len(call.entries) :
              watch_history_constraints(NewRow(0, call.entries[j]))}} \ call.before

(* C14: bulkInsert applies its whole batch inside one transaction: an
   operation interleaved with a running bulkInsert (a count here) never
   observes a store in which some but not all of the batch's new records are
   present. *)
C14_BulkInsertTransactional ==
  \A c \in Callers :
    (last.op = "count" /\ c \in last.pending /\ calls[c].op = "bulkInsert") =>
      LET present == NewKeys(calls[c]) \cap Keys(watch_history)
      IN present = {} \/ present = NewKeys(calls[c])

PendingInserts ==
  /\ \A c \in Callers : calls[c].op = "insert"
  /\ \A c, d \in Callers : SameKey(NewRow(0, calls[c].entry), NewRow(0, calls[d].entry))

RowsWithKey(e) == {w \in watch_history : SameKey(w, NewRow(0, e))}

(* C15 as stated: if two insert calls for the same (videoId, watchedAt) are
   in flight at the same time, exactly one of them returns true, the other
   returns false, and exactly one row with that key exists afterwards. *)
C15_ExactlyOneInsertWins ==
  PendingInserts =>
    /\ Cardinality({c \in Callers : calls[c].ret}) = 1
    /\ \A c \in Callers : Cardinality(RowsWithKey(calls[c].entry)) = 1

(* C15, amended: of two insert calls for the same key in flight at the same
   time at most one returns true and at most one row with the key exists
   afterwards; when the records satisfy the table's constraints and no event
   with the key was stored when the first of the two ran, exactly one returns
   true, the other false, and exactly one row with the key exists. *)
C15_AtMostOneInsertWins ==
  PendingInserts =>
    /\ Cardinality({c \in Callers : calls[c].ret}) <= 1
    /\ \A c \in Callers : Cardinality(RowsWithKey(calls[c].entry)) <= 1
    /\ ((\A c \in Callers : watch_history_constraints(NewRow(0, calls[c].entry)))
        /\ (\E c \in Callers : ~calls[c].stored))
       => /\ Cardinality({c \in Callers : calls[c].ret}) = 1
          /\ \A c \in Callers : Cardinality(RowsWithKey(calls[c].entry)) = 1

(* both calls pending on one key, the second caller's statement ran first
   and won *)
C15_Witness ==
  /\ PendingInserts
  /\ calls["b"].ret /\ ~calls["a"].ret
  /\ calls["a"].stored /\ ~calls["b"].stored
  /\ calls["a"].entry # calls["b"].entry

(* texts of up to three lines, and one with an empty line before a bad one *)
SomeTexts ==
  SeqsUpTo({JsonLine(RecA, <<>>, <<>>), JsonLine(RecC, <<>>, <<>>),
            [kind |-> "bad"], [kind |-> "blank"]}, 3) \cup BrokenTexts

(* the 0-based positions in text of the lines that are not JSON *)
RECURSIVE BadPositions(_, _)
BadPositions(text, i) ==
  IF i > Len(text) THEN <<>>
  ELSE (IF text[i].kind = "bad" THEN <<i - 1>> ELSE <<>>) \o BadPositions(text, i + 1)

(* every line of an event in text is stored in db, and what was stored is kept *)
ValidLinesImported(r, text) ==
  /\ \A i \in 1..Len(text) :
       text[i].kind = "json" =>
         \E w \in r.db.watch_history : SameKey(w, NewRow(0, text[i].obj))
  /\ r.ret.imported + r.ret.duplicates =
       Cardinality({i \in 1..Len(text) : text[i].kind = "json"})
  /\ watch_history \subseteq r.db.watch_history

(* C16 as stated: importFromJsonl never aborts on a bad line: a line that is
   not valid JSON adds one entry to errors carrying that line's index, and
   every valid line before and after it is still imported. *)
C16_ErrorCarriesLineIndex ==
  \A text \in SomeTexts :
    LET r == importFromJsonl(DB, text)
    IN /\ r.ret.errors = BadPositions(text, 1)
       /\ ValidLinesImported(r, text)

(* what importFromJsonl does on a bad line: a line that is not valid JSON adds
   one entry to errors carrying the line's 0-based position among the
   non-empty lines of the text, and every valid line before and after it is
   still imported. *)
C16_ErrorCarriesNonBlankIndex ==
  \A text \in SomeTexts :
    LET r == importFromJsonl(DB, text)
    IN /\ r.ret.errors =
            BadPositions(SelectSeq(text, LAMBDA line : line.kind # "blank"), 1)
       /\ ValidLinesImported(r, text)

(* an import of four lines, the third no JSON and the second empty: one
   error with index 1, the events of the first and last line imported *)
ImportedAroundBadLine ==
  /\ last.op = "importFromJsonl" /\ last.lines = 4
  /\ last.ret.errors = <<1>> /\ last.ret.imported = 2
  /\ Keys(watch_history) = {KeyOf(NewRow(0, RecA)), KeyOf(NewRow(0, RecC))}

(* the ordering and paging options compared: one or no value per option *)
OrderOptions ==
  AddOption(AddOption(AddOption(AddOption({[includeAds |-> TRUE]},
    "orderBy", {"watchedAt", "title", "channelName"}), "orderDir", {"asc", "desc"}),
    "limit", {0, 1, 2}), "offset", {1, 2})

(* every arrangement of the stored events, as query returns them *)
Arrangements ==
  {[i \in DOMAIN s |-> mapRowToEntry(s[i])] :
     s \in {t \in [1..Cardinality(watch_history) -> watch_history] : IsInjective(t)}}

(* s is ordered by the key: no element sorts strictly before an earlier one
   (ascending) or strictly after an earlier one (descending) *)
OrderedBy(s, orderBy, orderDir) ==
  \A i, j \in DOMAIN s :
    i < j => IF orderDir = "asc" THEN ~SortsBefore(s[j][orderBy], s[i][orderBy])
                                 ELSE ~SortsBefore(s[i][orderBy], s[j][orderBy])

(* res holds the elements at the 0-based positions offset .. offset+limit-1 of s *)
IsPage(res, s, offset, limit) ==
  /\ DOMAIN res = {i \in 1..limit : offset + i <= Len(s)}
  /\ \A i \in DOMAIN res : res[i] = s[offset + i]

(* C17: query returns the matching events ordered by the chosen orderBy key
   (watchedAt, title or channelName) in the chosen direction, watchedAt
   descending when orderBy and orderDir are not given; with limit and offset
   it returns the elements at positions offset .. offset+limit-1 of that
   ordered sequence. *)
C17_QueryOrderAndPage ==
  \A o \in OrderOptions :
    /\ query(DB, o) # {}
    /\ \A res \in query(DB, o) :
         \E s \in Arrangements :
           /\ OrderedBy(s, Opt(o, "orderBy", "watchedAt"), Opt(o, "orderDir", "desc"))
           /\ IsPage(res, s, Opt(o, "offset", 0), Opt(o, "limit", DefaultLimit))

(* three events stored; the second page of one by title ascending holds the
   event titled "B%", and the default order begins with the 14:00 event *)
C17_Witness ==
  /\ Cardinality(watch_history) = 3
  /\ last.op = "query"
  /\ last.options = [orderBy |-> "title", orderDir |-> "asc", limit |-> 1, offset |-> 1]
  /\ Len(last.page) = 1
  /\ \E r \in watch_history : r.id = last.page[1] /\ r.title = "B%"
  /\ \A res \in query(DB, [includeAds |-> TRUE]) :
       Len(res) = 3 /\ res[1].watchedAt = "14:00"

(* the minutes after midnight of a time written "HH:MM" *)
Minutes(t) ==
  LET digit(i) == CHOOSE d \in 0..9 : CharAt("0123456789", d + 1) = CharAt(t, i)
  IN (digit(1) * 10 + digit(2)) * 60 + digit(4) * 10 + digit(5)

(* every combination of one or no value for each bound *)
DateFilters ==
  AddOption(AddOption({[includeAds |-> TRUE]},
    "dateFrom", {"10:00", "11:00", "12:00", "14:00"}),
    "dateTo", {"10:00", "12:00", "13:00", "14:00"})

(* the events of the store within the bounds of f, both inclusive *)
WithinDates(f) ==
  {r \in watch_history :
     /\ "dateFrom" \in DOMAIN f => Minutes(f.dateFrom) <= Minutes(r.watchedAt)
     /\ "dateTo" \in DOMAIN f => Minutes(r.watchedAt) <= Minutes(f.dateTo)}

(* C18: query and count with dateFrom and/or dateTo select exactly the
   events with dateFrom <= watchedAt <= dateTo, both bounds inclusive;
   events at 10:00, 12:00 and 14:00 filtered with 11:00..13:00 give exactly
   the 12:00 event. *)
C18_DateRangeInclusive ==
  /\ \A f \in DateFilters :
       /\ count(DB, f) = Cardinality(WithinDates(f))
       /\ \A res \in query(DB, f) :
            /\ {res[i].id : i \in DOMAIN res} = {r.id : r \in WithinDates(f)}
            /\ Len(res) = Cardinality(WithinDates(f))
  /\ {r.watchedAt : r \in watch_history} = {"10:00", "12:00", "14:00"}
       => \A res \in query(DB, [dateFrom |-> "11:00", dateTo |-> "13:00"]) :
            Len(res) = 1 /\ res[1].watchedAt = "12:00"

(* the three events are stored and a query with both bounds at 12:00
   returned the 12:00 event alone *)
C18_Witness ==
  /\ {r.watchedAt : r \in watch_history} = {"10:00", "12:00", "14:00"}
  /\ last.op = "query"
  /\ last.options = [dateFrom |-> "12:00", dateTo |-> "12:00"]
  /\ last.count = 1 /\ Len(last.page) = 1
  /\ \E r \in watch_history : r.id = last.page[1] /\ r.watchedAt = "12:00"

(* text contains s as a substring, ignoring the case of letters *)
Contains(text, s) ==
  \E k \in 0..(Len(text) - Len(s)) :
    \A i \in 1..Len(s) : Fold(CharAt(text, k + i)) = Fold(CharAt(s, i))

(* the events whose title or channelName contains s *)
Mentioning(s) ==
  {r \in watch_history :
     \/ Contains(r.title, s)
     \/ r.channelName # NULL /\ Contains(r.channelName, s)}

(* query and count with search s select exactly the events mentioning s *)
SelectsMentioning(s) ==
  /\ count(DB, [search |-> s]) = Cardinality(Mentioning(s))
  /\ \A res \in query(DB, [search |-> s]) :
       {res[i].id : i \in DOMAIN res} = {r.id : r \in Mentioning(s)}

(* C19: for every non-empty search string s, taken as literal text, query and
   count select exactly the events whose title or channelName contains s as
   a substring, ignoring letter case; an event with a null channelName is
   selected only through its title. *)
C19_SearchIsLiteral ==
  \A s \in {"a", "AB", "ch", "b", "B%", "a_", "_", "%", "b%", "x"} :
    SelectsMentioning(s)

(* what holds: a search string without the characters % and _ selects
   exactly the events whose title or channelName contains it *)
SearchWithoutWildcards ==
  \A s \in {"a", "AB", "ch", "b", "x", "A", "Ab"} : SelectsMentioning(s)

(* a search for "_" counted an event although no title or channelName
   stored contains that character *)
SearchedUnderscore ==
  /\ last.op = "query" /\ last.options = [search |-> "_"]
  /\ last.count > 0 /\ Mentioning("_") = {}

(* C20: after any sequence of inserts and deletes, getLatestWatchedAt returns
   the greatest watchedAt among the events currently stored, and null when
   the store holds no event (including after the last event was deleted). *)
C20_LatestWatchedAt ==
  LET latest == getLatestWatchedAt(DB)
  IN /\ watch_history = {} => latest = NULL
     /\ watch_history # {} =>
          /\ \E r \in watch_history : r.watchedAt = latest
          /\ \A r \in watch_history : Minutes(r.watchedAt) <= Minutes(latest)
     /\ last.op = "getLatestWatchedAt" => last.ret = latest

(* 14:00 was inserted before the two earlier events and then deleted; the
   call returned 12:00 *)
C20_Witness ==
  /\ last.op = "getLatestWatchedAt" /\ last.ret = "12:00"
  /\ seq.watch_history = 3
  /\ {r.id : r \in watch_history} = {2, 3}
  /\ \E r \in watch_history : r.watchedAt = "12:00" /\ r.id = 2

(* C21: operating on an id that matches no row never throws and changes
   nothing: getById returns null, delete returns false (watch events, notes,
   tags), notes.update and tags.rename/updateColor return null, remove
   returns false, and getByWatchHistoryId/getTagsForVideo return an empty
   list; delete returns true exactly when a row with that id existed and was
   removed. *)
C21_MissingIdIsNoOp ==
  /\ \A id \in EventIds \ {r.id : r \in watch_history} :
       /\ getById(DB, id) = {}
       /\ delete(DB, id) = [db |-> DB, ret |-> FALSE]
       /\ getByWatchHistoryId(DB, id) = {<<>>}
       /\ getTagsForVideo(DB, id) = {}
       /\ \A t \in TagIds : remove(DB, id, t) = [db |-> DB, ret |-> FALSE]
  /\ \A id \in NoteIds \ {n.id : n \in notes} :
       /\ notes_delete(DB, id) = [db |-> DB, ret |-> FALSE]
       /\ \A content \in NoteContents \cup {NULL} :
            update(DB, id, content) = [db |-> DB, threw |-> FALSE, ret |-> {}]
  /\ \A id \in TagIds \ {t.id : t \in tags} :
       /\ tags_delete(DB, id) = [db |-> DB, ret |-> FALSE]
       /\ \A name \in TagNames :
            rename(DB, id, name) = [db |-> DB, threw |-> FALSE, ret |-> {}]
       /\ \A color \in {"red", NULL} :
            updateColor(DB, id, color) = [db |-> DB, ret |-> {}]
       /\ \A w \in EventIds : remove(DB, w, id) = [db |-> DB, ret |-> FALSE]
  /\ \A id \in EventIds :
       LET r == delete(DB, id)
       IN /\ r.ret = (\E e \in watch_history : e.id = id)
          /\ ~\E e \in r.db.watch_history : e.id = id
          /\ r.ret => r.db.watch_history # watch_history

(* a delete of an id no event has returned false while events, notes, tags
   and assignments are stored *)
C21_Witness ==
  /\ last.op = "delete" /\ last.ret = FALSE
  /\ watch_history # {} /\ notes # {} /\ tags # {} /\ video_tags # EmptyBag

(* C22: deleting a tag removes every video_tags row that references it and
   nothing else: all watch events, all notes, all other tags and the
   associations of other tags are unchanged. *)
C22_TagDeleteFrame ==
  \A g \in tags :
    LET r == tags_delete(DB, g.id)
    IN /\ r.ret
       /\ r.db.tags = tags \ {g}
       /\ r.db.video_tags =
            [p \in {q \in DOMAIN video_tags : q.tagId # g.id} |-> video_tags[p]]
       /\ r.db.watch_history = watch_history
       /\ r.db.notes = notes

(* a tag with an association was deleted; the event, its note, the other tag
   and the other tag's association are still there *)
C22_Witness ==
  /\ last.op = "tags.delete" /\ last.ret /\ last.removed > 0
  /\ watch_history # {} /\ notes # {}
  /\ \E g \in tags : \E e \in watch_history : hasTag(DB, e.id, g.id)
  /\ \A p \in DOMAIN video_tags : \E g \in tags : g.id = p.tagId

(* C23: getByWatchHistoryId(eventId) returns the event's notes newest-first:
   for any two notes of the same event, the one added later appears earlier
   in the result, however close together in time the two add calls were. *)
C23_NotesNewestFirst ==
  last.op = "getByWatchHistoryId" =>
    \A i, j \in DOMAIN last.ret : i < j => last.ret[i].id > last.ret[j].id

(* what holds: of two notes added in different seconds the later one comes
   first *)
NotesNewestFirstBySecond ==
  \A w \in EventIds :
    \A res \in getByWatchHistoryId(DB, w) :
      \A i, j \in DOMAIN res :
        (i < j /\ res[i].createdAt # res[j].createdAt) => res[i].id > res[j].id

(* C24: after any sequence of notes add, update and import calls, every
   stored note has a non-empty content string and refers to an existing
   watch event. *)
C24_NotesWellFormed ==
  \A n \in notes :
    /\ n.content # NULL /\ n.content # ""
    /\ \E e \in watch_history : e.id = n.watchHistoryId

(* what holds: every stored note has a content that is not null and refers
   to an existing watch event *)
NotesReferToEvents ==
  \A n \in notes :
    /\ n.content # NULL
    /\ \E e \in watch_history : e.id = n.watchHistoryId

(* the number of note strings in the lines jsonl[i..] *)
RECURSIVE NoteStrings(_, _)
NoteStrings(jsonl, i) ==
  IF i > Len(jsonl) THEN 0
  ELSE Len(Opt(jsonl[i].obj, "notes", <<>>)) + NoteStrings(jsonl, i + 1)

NotesOf(db, w) == {n \in db.notes : n.watchHistoryId = w}

(* every event of store a has twice as many notes in store b, with the same
   distinct contents *)
NotesDoubled(a, b) ==
  \A e \in a.watch_history :
    /\ Cardinality(NotesOf(b, e.id)) = 2 * Cardinality(NotesOf(a, e.id))
    /\ {n.content : n \in NotesOf(b, e.id)} = {n.content : n \in NotesOf(a, e.id)}

(* C25: importing the same export text a second time into the same store
   creates one new note row for every note string in the text (notesCreated
   equals the number of note strings both times), so each event's note count
   doubles while its set of distinct note contents stays the same. *)
C25_ReimportDoublesNotes ==
  \A jsonl \in exportToJsonl(DB) :
    LET first == importFromJsonl(EmptyDB, jsonl)
        second == importFromJsonl(first.db, jsonl)
        again == importFromJsonl(DB, jsonl)
    IN /\ first.ret.notesCreated = NoteStrings(jsonl, 1)
       /\ second.ret.notesCreated = NoteStrings(jsonl, 1)
       /\ second.ret.imported = 0 /\ second.ret.duplicates = Len(jsonl)
       /\ second.ret.errors = <<>>
       /\ second.db.watch_history = first.db.watch_history
       /\ NotesDoubled(first.db, second.db)
       /\ again.ret.notesCreated = NoteStrings(jsonl, 1)
       /\ NotesDoubled(DB, again.db)

(* a text with two note strings was imported twice: two notes created each
   time, and the store exported holds an event with two different notes *)
C25_Witness ==
  /\ last.op = "reimport"
  /\ last.first.notesCreated = 2 /\ last.second.notesCreated = 2
  /\ last.first.imported = 2 /\ last.second.duplicates = 2
  /\ \E e \in watch_history : Cardinality({n.content : n \in NotesOf(DB, e.id)}) = 2

(* C26: initDatabase on a store whose recorded schema version is 0 (no
   tables), 1 or 2 applies exactly the migration steps whose target version
   is above the recorded one, in ascending order (v1 before v2), ends with
   schema_version = 2 and all five tables present, keeps all existing rows,
   and running it again changes nothing. *)
C26_MigrationsInOrder ==
  LET r == ensureSchema(schema)
  IN /\ Range(r.steps) = {v \in 1..SCHEMA_VERSION : v > getSchemaVersion(schema)}
     /\ \A i, j \in DOMAIN r.steps : i < j => r.steps[i] < r.steps[j]
     /\ r.schema.version = SCHEMA_VERSION
     /\ r.schema.tables = {"watch_history", "sync_meta", "notes", "tags", "video_tags"}
     /\ ensureSchema(r.schema) = [schema |-> r.schema, steps |-> <<>>]
     /\ last.op = "initDatabase" =>
          /\ schema = r.schema
          /\ last.rows = Cardinality(watch_history) + Cardinality(notes)

(* a file of version 1 holding an event was opened: the step to version 2
   alone ran, and the event is still stored *)
C26_Witness ==
  /\ last.op = "initDatabase" /\ last.steps = <<2>>
  /\ last.rows = 1 /\ Cardinality(watch_history) = 1
  /\ schema.version = 2

(* C27: after importFromJsonl(text), imported + duplicates + errors.length
   equals the number of non-empty lines of text: every line is counted
   exactly once, as imported, as duplicate or as error, also when a record's
   event is inserted but one of its notes or tags then fails. *)
C27_ImportCountsEachLineOnce ==
  /\ \A line \in TaggedLines :
       LET r == importFromJsonl(DB, <<line, [kind |-> "blank"]>>)
       IN r.ret.imported + r.ret.duplicates + Len(r.ret.errors) = 1
  /\ last.op = "importFromJsonl" =>
       last.ret.imported + last.ret.duplicates + Len(last.ret.errors) = last.lines

(* C28: if setVideoTags(eventId, tagIds) fails (because tagIds contains the
   id of no existing tag, or repeats an id), the associations the event had
   before the call are all still present afterwards: the replace is
   all-or-nothing. *)
C28_SetVideoTagsAllOrNothing ==
  \A e \in watch_history :
    \A ts \in IdLists(TagIds) :
      LET r == setVideoTags(DB, e.id, ts)
      IN r.threw => \A t \in TagIds : hasTag(DB, e.id, t) => hasTag(r.db, e.id, t)

(* the non-empty lists of up to two tag ids, repeats included *)
TagLists == SeqsUpTo(TagIds, 2) \ {<<>>}

(* query and count give the same for the tag filters ts and us under logic *)
SameSelection(ts, us, logic) ==
  /\ QueryIds([tagIds |-> ts, tagLogic |-> logic]) =
       QueryIds([tagIds |-> us, tagLogic |-> logic])
  /\ count(DB, [tagIds |-> ts, tagLogic |-> logic]) =
       count(DB, [tagIds |-> us, tagLogic |-> logic])

(* C29: the result of query and count with a tag filter depends only on the
   set of ids in tagIds: repeating an id in the list or reordering the list
   does not change the result, under both AND and OR logic. *)
C29_TagFilterIsASet ==
  \A ts, us \in TagLists :
    Range(ts) = Range(us) =>
      SameSelection(ts, us, "AND") /\ SameSelection(ts, us, "OR")

(* what holds: under OR the result depends only on the set of ids, and under
   AND it does for lists that repeat no id *)
TagFilterWithoutRepeats ==
  \A ts, us \in TagLists :
    Range(ts) = Range(us) =>
      /\ SameSelection(ts, us, "OR")
      /\ (IsInjective(ts) /\ IsInjective(us)) => SameSelection(ts, us, "AND")

(* both callers ran getOrCreate(name) to its end, each after a lookup that
   found no tag of that name *)
BothCreated(name) ==
  \A c \in Callers :
    /\ calls[c].op = "getOrCreate"
    /\ calls[c].pc = "done"
    /\ calls[c].name = name
    /\ calls[c].existing = {}

(* C30: if two getOrCreate(name) calls for a name that does not exist yet are
   in flight at the same time, with their steps interleaved at the await
   between the lookup and the create, both calls complete without error and
   return the same tag, and exactly one tag row with that name exists. *)
C30_ConcurrentGetOrCreate ==
  \A name \in TagNames :
    BothCreated(name) =>
      /\ \A c \in Callers : ~calls[c].threw
      /\ calls["a"].ret = calls["b"].ret
      /\ Cardinality(getByName(DB, name)) = 1

(* what holds: the table never has two rows of one name, and of two such
   calls at most one returned a tag that is stored *)
ConcurrentGetOrCreateKeepsNamesUnique ==
  /\ \A t, u \in tags : t.name = u.name => t = u
  /\ \A name \in TagNames :
       BothCreated(name) =>
         /\ Cardinality({c \in Callers :
                           ~calls[c].threw /\ calls[c].ret \subseteq tags}) <= 1
         /\ Cardinality(getByName(DB, name)) <= 1

(* two such calls have both run to their end *)
BothCreatedReached == \E name \in TagNames : BothCreated(name)

====
